---------------------------- MODULE Spec2Model ----------------------------
(***************************************************************************)
(* TaskManager: board visibility (accounts/models.py can_view_board), the  *)
(* board, list, item, comment, label and attachment views of               *)
(* boards/views.py and the "recently viewed" sorted set kept in Redis      *)
(* (config/utils/redis_handler.py).                                        *)
(*                                                                         *)
(* Every HTTP request is one action: the request/response server handles   *)
(* a request to completion, and its response is recorded in resp.          *)
(***************************************************************************)
EXTENDS Integers, Sequences, FiniteSets, TLC

(***************************************************************************)
(* Bounds of the model.                                                    *)
(***************************************************************************)
NUsers == 2
NProjects == 1
MaxBoards == 2
MaxTicks == 2
ClockStart == 58

(***************************************************************************)
(* Program constants.                                                      *)
(***************************************************************************)
RecentStop == 3
SearchCap == 2

Users == 1..NUsers
Projects == 1..NProjects
\* ids a request may name: one more than exists, for the 404 paths
ProjectIds == 1..(NProjects + 1)
BoardIds == 1..MaxBoards
AccessLevels == {"member", "admin"}
\* ContentType rows a Board.owner_model may point at; "board" stands for
\* any content type that is neither customuser nor project
OwnerModels == {"customuser", "project", "board"}
Titles == {<<"a", "B">>}
Queries == {<<"b">>, <<"c">>}
NoQ == <<"-", "-", "-">>

VARIABLES
    memberships,   \* ProjectMembership rows: [project, member, access_level]
    boards,        \* Board table: id -> row, for the ids that exist
    lists,         \* List table: id -> [board, title]
    items,         \* Item table: id -> [list, assigned_to, labels, image,
                   \*                   image_url, color]
    comments,      \* Comment table: id -> [item, author, body]
    labels,        \* Label table: id -> [board, title]
    attachments,   \* Attachment table: id -> [item]
    nextId,        \* the tables' auto-increments: table name -> next id
    recent,        \* Redis: user -> sorted set (member -> score)
    store,         \* "up", "down" (calls raise) or "none" (redis_client is None)
    now,           \* the wall clock, in seconds
    resp,          \* the response of the last request
    starred,       \* CustomUser.starred_boards: user -> set of board ids
    inflight       \* requests being served side by side: slot -> progress

vars == <<memberships, boards, lists, items, comments, labels, attachments,
          nextId, recent, store, now, resp, starred, inflight>>

childVars == <<lists, items, comments, labels, attachments>>

(***************************************************************************)
(* Helpers.                                                                *)
(***************************************************************************)
Min(a, b) == IF a < b THEN a ELSE b

Remove(f, k) == [x \in DOMAIN f \ {k} |-> f[x]]

Put(f, k, v) == [x \in DOMAIN f \cup {k} |-> IF x = k THEN v ELSE f[x]]

SeqToSet(s) == {s[i] : i \in 1..Len(s)}

\* a request without a body that matters
NoData == [keys |-> {}]

\* pk: the row the request addresses or created; parent: the project, board,
\* list or item id the request names (0: none); result: can_view_board's
\* answer, or serializer.is_valid() of a request on a list, item, comment,
\* label or attachment; data: the body of a PUT on a board or an item
Response(op, user, pk, parent, q, status, ids, seq, result) ==
    [op |-> op, user |-> user, pk |-> pk, parent |-> parent, q |-> q,
     status |-> status, ids |-> ids, seq |-> seq, result |-> result,
     data |-> NoData]

NoResponse == Response("none", 0, 0, 0, NoQ, "-", {}, <<>>, FALSE)

\* The requests that the server's workers serve side by side.  A request is
\* "idle" before it arrives, "read" after its membership query, "done" after
\* its add or remove and "failed" when it ended before the query; op is the
\* relation that it toggles, pk the board or the item, x the board, label or
\* user that is toggled, and seen what the membership query answered.
NRequests == 2
Slots == 1..NRequests

Request(op, user, pk, x, seen, pc) ==
    [op |-> op, user |-> user, pk |-> pk, x |-> x, seen |-> seen, pc |-> pc]

NoRequests == [s \in Slots |-> Request("none", 0, 0, 0, FALSE, "idle")]

\* the row of an item that was just created: no assignee, no label, no
\* background
NewItem(list) ==
    [list |-> list, assigned_to |-> {}, labels |-> {},
     image |-> "None", image_url |-> "", color |-> ""]

(***************************************************************************)
(* accounts/models.py: CustomUser.can_view_board.                          *)
(***************************************************************************)
can_view_board_ignore_kind(self, board) == board.owner_id = self

can_view_board(self, board) ==
    IF board.owner_model = "project"
    THEN \E pmem \in memberships :
            pmem.member = self /\ pmem.project = board.owner_id
    ELSE board.owner_id = self

(***************************************************************************)
(* boards/permissions.py and projects/permissions.py (not in the source    *)
(* tree): the object permissions the views name.                           *)
(***************************************************************************)
CanViewBoard(user, board) == can_view_board(user, board)

IsProjectMember(user, project) ==
    \E pmem \in memberships : pmem.member = user /\ pmem.project = project

(***************************************************************************)
(* The Redis sorted set behind r.zadd / r.zrange.  Members are the decimal *)
(* strings of the ids; equal scores are ordered by member, byte-wise.      *)
(***************************************************************************)
RECURSIVE Digits(_)
Digits(n) == IF n < 10 THEN <<n>> ELSE Append(Digits(n \div 10), n % 10)

RECURSIVE LexLess(_, _)
LexLess(a, b) ==
    IF a = <<>> THEN b # <<>>
    ELSE IF b = <<>> THEN FALSE
    ELSE IF Head(a) # Head(b) THEN Head(a) < Head(b)
    ELSE LexLess(Tail(a), Tail(b))

\* m sorts after n in the set z: higher score, or equal score and greater member
ZAfter(z, m, n) ==
    \/ z[m] > z[n]
    \/ z[m] = z[n] /\ LexLess(Digits(n), Digits(m))

zadd(z, member, score) == Put(z, member, score)

RECURSIVE ZRevOrder(_)
ZRevOrder(z) ==
    IF DOMAIN z = {} THEN <<>>
    ELSE LET top == CHOOSE m \in DOMAIN z :
                        \A n \in DOMAIN z \ {m} : ZAfter(z, m, n)
         IN  <<top>> \o ZRevOrder(Remove(z, top))

\* r.zrange(key, start, stop, desc=True)
zrange_desc(z, start, stop) ==
    SubSeq(ZRevOrder(z), start + 1, Min(stop + 1, Len(ZRevOrder(z))))

(***************************************************************************)
(* int(timezone.now().strftime("%Y%m%d%H%M%S")): the clock stays within    *)
(* one day, so the date digits are a fixed prefix and are left out.        *)
(***************************************************************************)
cur_time_int(t) ==
    ((t \div 3600) % 24) * 10000 + ((t \div 60) % 60) * 100 + (t % 60)

(***************************************************************************)
(* title__icontains: case-insensitive substring match.                     *)
(***************************************************************************)
Lower(c) == IF c = "A" THEN "a" ELSE IF c = "B" THEN "b" ELSE c

LowerSeq(s) == [i \in 1..Len(s) |-> Lower(s[i])]

icontains(title, q) ==
    \E i \in 1..(Len(title) - Len(q) + 1) :
        SubSeq(LowerSeq(title), i, i + Len(q) - 1) = LowerSeq(q)

(***************************************************************************)
(* boards/views.py: BoardList.                                             *)
(***************************************************************************)
project_ids(user) == {pmem.project : pmem \in {m \in memberships : m.member = user}}

\* lines 57-62: the queryset when no project id is given
OwnOrMemberBoards_no_kind(user) ==
    {b \in DOMAIN boards :
        \/ boards[b].owner_id = user
        \/ boards[b].owner_id \in project_ids(user)}

OwnOrMemberBoards(user) ==
    {b \in DOMAIN boards :
        \/ boards[b].owner_id = user /\ boards[b].owner_model = "customuser"
        \/ boards[b].owner_id \in project_ids(user)
           /\ boards[b].owner_model = "project"}

\* lines 64-65
ProjectBoards(project_id) ==
    {b \in DOMAIN boards :
        boards[b].owner_id = project_id /\ boards[b].owner_model = "project"}

\* get_project: get_object_or_404, then check_object_permissions
get_project(user, pk) ==
    IF pk \notin Projects THEN "404"
    ELSE IF ~IsProjectMember(user, pk) THEN "403"
    ELSE "ok"

\* queryset[:n] without an ordering: any n rows
Slice(S, n) == {T \in SUBSET S : Cardinality(T) = Min(n, Cardinality(S))}

\* lines 49-55: the boards of the top ids that exist, in the ids' order
RecentBoards(user) ==
    LET board_ids == zrange_desc(recent[user], 0, RecentStop)
    IN  SelectSeq(board_ids, LAMBDA pk : pk \in DOMAIN boards)

\* GET /boards: project_id = 0 and search = NoQ stand for an absent parameter
BoardList_get(user, project_id, sort, search) ==
    /\ UNCHANGED <<starred, inflight, memberships, boards, childVars, nextId, recent, store, now>>
    /\ IF sort = "recent"
       THEN IF store # "up"
            THEN resp' = Response("BoardList.get.recent", user, 0, 0, NoQ,
                                  "500", {}, <<>>, FALSE)
            ELSE resp' = Response("BoardList.get.recent", user, 0, 0, NoQ,
                                  "200", SeqToSet(RecentBoards(user)),
                                  RecentBoards(user), FALSE)
       ELSE LET queryset == IF project_id = 0 THEN OwnOrMemberBoards(user)
                            ELSE ProjectBoards(project_id)
                denied == IF project_id = 0 THEN "ok"
                          ELSE get_project(user, project_id)
            IN  IF denied # "ok"
                THEN resp' = Response("BoardList.get", user, 0, project_id,
                                      search, denied, {}, <<>>, FALSE)
                ELSE IF search # NoQ
                THEN \E page \in Slice({b \in queryset :
                                          icontains(boards[b].title, search)},
                                       SearchCap) :
                        resp' = Response("BoardList.get", user, 0, project_id,
                                         search, "200", page, <<>>, FALSE)
                ELSE resp' = Response("BoardList.get", user, 0, project_id,
                                      search, "200", queryset, <<>>, FALSE)

\* the fields a board request body may carry
BoardData(keys, title, project, image, image_url, color) ==
    [keys |-> keys, title |-> title, project |-> project, image |-> image,
     image_url |-> image_url, color |-> color]

NewBoard(owner_id, owner_model, data) ==
    [owner_id |-> owner_id, owner_model |-> owner_model, title |-> data.title,
     image |-> IF "image" \in data.keys THEN data.image ELSE "None",
     image_url |-> IF "image_url" \in data.keys THEN data.image_url ELSE "",
     color |-> IF "color" \in data.keys THEN data.color ELSE ""]

\* POST /boards; valid is serializer.is_valid()
BoardList_post(user, valid, data) ==
    /\ nextId["board"] <= MaxBoards
    /\ UNCHANGED <<starred, inflight, memberships, childVars, recent, store, now>>
    /\ LET denied == IF ~valid THEN "400"
                     ELSE IF "project" \in data.keys
                     THEN get_project(user, data.project)
                     ELSE "ok"
           pk == nextId["board"]
       IN  IF denied # "ok"
           THEN /\ resp' = Response("BoardList.post", user, 0, 0, NoQ, denied,
                                    {}, <<>>, FALSE)
                /\ UNCHANGED <<boards, nextId>>
           ELSE /\ boards' = Put(boards, pk,
                                 IF "project" \in data.keys
                                 THEN NewBoard(data.project, "project", data)
                                 ELSE NewBoard(user, "customuser", data))
                /\ nextId' = [nextId EXCEPT !["board"] = pk + 1]
                /\ resp' = Response("BoardList.post", user, pk, 0, NoQ, "201",
                                    {pk}, <<>>, FALSE)

(***************************************************************************)
(* boards/views.py: BoardDetail.                                           *)
(***************************************************************************)
BoardDetail_get_queryset_all(user) == DOMAIN boards

\* lines 155-160
BoardDetail_get_queryset(user) ==
    {b \in DOMAIN boards :
        \/ boards[b].owner_id = user /\ boards[b].owner_model = "customuser"
        \/ boards[b].owner_id \in project_ids(user)
           /\ boards[b].owner_model = "project"}

\* lines 162-167: the outcome of get_object.  r.zadd comes first; with the
\* client None it raises AttributeError, with the server down
\* redis.ConnectionError, and neither is caught.
BoardDetail_get_object(user, pk) ==
    IF store # "up" THEN "500"
    ELSE IF pk \notin BoardDetail_get_queryset(user) THEN "404"
    ELSE IF ~CanViewBoard(user, boards[pk]) THEN "403"
    ELSE "ok"

\* line 166: the view recorded by get_object, whatever DRF decides afterwards
RecordView(user, pk) ==
    IF store # "up" THEN recent
    ELSE [recent EXCEPT ![user] = zadd(recent[user], pk, cur_time_int(now))]

\* on_delete=CASCADE below a board
ListsOf(bs) == {l \in DOMAIN lists : lists[l].board \in bs}
ItemsOf(ls) == {i \in DOMAIN items : items[i].list \in ls}
CommentsOf(is) == {c \in DOMAIN comments : comments[c].item \in is}
AttachmentsOf(is) == {a \in DOMAIN attachments : attachments[a].item \in is}
LabelsOf(bs) == {l \in DOMAIN labels : labels[l].board \in bs}

Without(f, S) == [x \in DOMAIN f \ S |-> f[x]]

\* GET /boards/{pk}
BoardDetail_retrieve(user, pk) ==
    /\ UNCHANGED <<starred, inflight, memberships, boards, childVars, nextId, store, now>>
    /\ recent' = RecordView(user, pk)
    /\ LET got == BoardDetail_get_object(user, pk)
       IN  resp' = Response("BoardDetail.get", user, pk, 0, NoQ,
                            IF got = "ok" THEN "200" ELSE got,
                            IF got = "ok" THEN {pk} ELSE {}, <<>>, FALSE)

\* lines 169-180: the row after perform_update, serializer.save(**kwargs)
\* writing the validated fields and then the keyword arguments
Validated(board, data) ==
    [board EXCEPT
        !.title = IF "title" \in data.keys THEN data.title ELSE @,
        !.image = IF "image" \in data.keys THEN data.image ELSE @,
        !.image_url = IF "image_url" \in data.keys THEN data.image_url ELSE @,
        !.color = IF "color" \in data.keys THEN data.color ELSE @]

BoardDetail_perform_update_keep(board, data) ==
    IF {"image", "image_url", "color"} \cap data.keys # {}
    THEN Validated(board, data)
    ELSE board

BoardDetail_perform_update_save(board, data) ==
    IF "image" \in data.keys
    THEN [Validated(board, data) EXCEPT !.image_url = "", !.color = ""]
    ELSE IF "image_url" \in data.keys
    THEN [Validated(board, data) EXCEPT !.image = "None", !.color = ""]
    ELSE IF "color" \in data.keys
    THEN [Validated(board, data) EXCEPT !.image = "None", !.image_url = ""]
    ELSE Validated(board, data)

BoardDetail_perform_update(board, data) ==
    IF "image" \in data.keys
    THEN [Validated(board, data) EXCEPT !.image_url = "", !.color = ""]
    ELSE IF "image_url" \in data.keys
    THEN [Validated(board, data) EXCEPT !.image = "None", !.color = ""]
    ELSE IF "color" \in data.keys
    THEN [Validated(board, data) EXCEPT !.image = "None", !.image_url = ""]
    ELSE board

\* PUT /boards/{pk}; valid is serializer.is_valid()
BoardDetail_update(user, pk, valid, data) ==
    /\ UNCHANGED <<starred, inflight, memberships, childVars, nextId, store, now>>
    /\ recent' = RecordView(user, pk)
    /\ LET got == BoardDetail_get_object(user, pk)
           status == IF got # "ok" THEN got ELSE IF ~valid THEN "400" ELSE "200"
       IN  /\ boards' = IF status = "200"
                        THEN [boards EXCEPT
                                ![pk] = BoardDetail_perform_update(@, data)]
                        ELSE boards
           /\ resp' = [Response("BoardDetail.put", user, pk, 0, NoQ, status,
                                IF status = "200" THEN {pk} ELSE {}, <<>>, FALSE)
                           EXCEPT !.data = data]

\* DELETE /boards/{pk}
BoardDetail_destroy(user, pk) ==
    /\ UNCHANGED <<inflight, memberships, nextId, store, now>>
    /\ recent' = RecordView(user, pk)
    /\ LET got == BoardDetail_get_object(user, pk)
       IN  /\ resp' = Response("BoardDetail.delete", user, pk, 0, NoQ,
                               IF got = "ok" THEN "204" ELSE got, {}, <<>>, FALSE)
           /\ IF got = "ok"
              THEN /\ boards' = Remove(boards, pk)
                   /\ starred' = [u \in Users |-> starred[u] \ {pk}]
                   /\ lists' = Without(lists, ListsOf({pk}))
                   /\ labels' = Without(labels, LabelsOf({pk}))
                   /\ items' = Without(items, ItemsOf(ListsOf({pk})))
                   /\ comments' = Without(comments,
                                          CommentsOf(ItemsOf(ListsOf({pk}))))
                   /\ attachments' = Without(attachments,
                                             AttachmentsOf(ItemsOf(ListsOf({pk}))))
              ELSE UNCHANGED <<boards, childVars, starred>>

(***************************************************************************)
(* The environment: project membership changes (projects/views.py, not in  *)
(* the source tree), the clock, and the Redis server.                      *)
(***************************************************************************)
\* unique per (project, member)
AddMember(project, member, level) ==
    /\ ~IsProjectMember(member, project)
    /\ memberships' = memberships \cup
            {[project |-> project, member |-> member, access_level |-> level]}
    /\ resp' = NoResponse
    /\ UNCHANGED <<starred, inflight, boards, childVars, nextId, recent, store, now>>

RemoveMember(project, member) ==
    /\ IsProjectMember(member, project)
    /\ memberships' = {m \in memberships :
                          ~(m.project = project /\ m.member = member)}
    /\ resp' = NoResponse
    /\ UNCHANGED <<starred, inflight, boards, childVars, nextId, recent, store, now>>

Tick ==
    /\ now < ClockStart + MaxTicks
    /\ now' = now + 1
    /\ resp' = NoResponse
    /\ UNCHANGED <<starred, inflight, memberships, boards, childVars, nextId, recent, store>>

\* the server goes away or comes back under a client that did connect
StoreFlip ==
    /\ store \in {"up", "down"}
    /\ store' = IF store = "up" THEN "down" ELSE "up"
    /\ resp' = NoResponse
    /\ UNCHANGED <<starred, inflight, memberships, boards, childVars, nextId, recent, now>>

(***************************************************************************)
(* Initial states.                                                         *)
(***************************************************************************)
Empty == [x \in {} |-> 0]

Tables == {"board", "list", "item", "comment", "label", "attachment"}

\* a fresh database; RedisClient.__new__ leaves the client None when the
\* ping at import fails
Init ==
    /\ memberships = {}
    /\ boards = Empty
    /\ lists = Empty
    /\ items = Empty
    /\ comments = Empty
    /\ labels = Empty
    /\ attachments = Empty
    /\ nextId = [t \in Tables |-> 1]
    /\ recent = [u \in Users |-> Empty]
    /\ store \in {"up", "none"}
    /\ now = ClockStart
    /\ resp = NoResponse
    /\ starred = [u \in Users |-> {}]
    /\ inflight = NoRequests

(***************************************************************************)
(* The boards API with the membership changes and the clock.               *)
(***************************************************************************)
PostData == {BoardData(keys, t, p, "None", "", "") :
                keys \in {{"title"}, {"title", "project"}},
                t \in Titles, p \in ProjectIds}

PutData == {BoardData(keys, t, 0, "None", "", "red") :
                keys \in {{"title"}, {"title", "color"}}, t \in Titles}

BoardsNext ==
    \/ \E u \in Users, p \in {0} \cup ProjectIds, q \in {NoQ} \cup Queries :
          BoardList_get(u, p, "none", q)
    \/ \E u \in Users : BoardList_get(u, 0, "recent", NoQ)
    \/ \E u \in Users, valid \in BOOLEAN, data \in PostData :
          BoardList_post(u, valid, data)
    \/ \E u \in Users, pk \in BoardIds : BoardDetail_retrieve(u, pk)
    \/ \E u \in Users, pk \in BoardIds, valid \in BOOLEAN, data \in PutData :
          BoardDetail_update(u, pk, valid, data)
    \/ \E u \in Users, pk \in BoardIds : BoardDetail_destroy(u, pk)
    \/ \E p \in Projects, u \in Users, level \in AccessLevels :
          AddMember(p, u, level)
    \/ \E p \in Projects, u \in Users : RemoveMember(p, u)

BoardsSpec == Init /\ [][BoardsNext]_vars

(***************************************************************************)
(* The recency tracker: own boards, views, the clock and the Redis server. *)
(***************************************************************************)
OwnData == {BoardData({"title"}, t, 0, "None", "", "") : t \in Titles}

RecencyNext ==
    \/ \E u \in Users : BoardList_get(u, 0, "recent", NoQ)
    \/ \E u \in Users, data \in OwnData : BoardList_post(u, TRUE, data)
    \/ \E u \in Users, pk \in BoardIds : BoardDetail_retrieve(u, pk)
    \/ \E u \in Users, pk \in BoardIds : BoardDetail_destroy(u, pk)
    \/ Tick
    \/ StoreFlip

RecencySpec == Init /\ [][RecencyNext]_vars

(***************************************************************************)
(* The access evaluator on its own: any membership graph, any board rows   *)
(* the tables can hold (owner_model is a foreign key to ContentType, so a  *)
(* row written through the admin may name any content type).               *)
(***************************************************************************)
MembershipRows == [project : Projects, member : Users, access_level : AccessLevels]

MembershipGraphs ==
    {M \in SUBSET MembershipRows :
        \A m1, m2 \in M :
            (m1.project = m2.project /\ m1.member = m2.member) => m1 = m2}

BoardRows == {[owner_id |-> o, owner_model |-> k, title |-> t, image |-> "None",
               image_url |-> "", color |-> ""] :
                o \in Users \cup Projects, k \in OwnerModels, t \in Titles}

AccessInit ==
    /\ memberships \in MembershipGraphs
    /\ boards \in [{1} -> BoardRows]
    /\ lists = Empty
    /\ items = Empty
    /\ comments = Empty
    /\ labels = Empty
    /\ attachments = Empty
    /\ nextId = [t \in Tables |-> IF t = "board" THEN 2 ELSE 1]
    /\ recent = [u \in Users |-> Empty]
    /\ store = "up"
    /\ now = ClockStart
    /\ resp = NoResponse
    /\ starred = [u \in Users |-> {}]
    /\ inflight = NoRequests

\* user.can_view_board(board), its answer recorded
Evaluate(user, pk) ==
    /\ pk \in DOMAIN boards
    /\ resp' = Response("can_view_board", user, pk, 0, NoQ, "-", {}, <<>>,
                        can_view_board(user, boards[pk]))
    /\ UNCHANGED <<starred, inflight, memberships, boards, childVars, nextId, recent, store, now>>

AccessNext == \E u \in Users, pk \in BoardIds : Evaluate(u, pk)

AccessSpec == AccessInit /\ [][AccessNext]_vars

(***************************************************************************)
(* boards/views.py: the resources below a board.  A request names its      *)
(* parent by id; 0 stands for a body or query string without the field.    *)
(***************************************************************************)
MaxLists == 2
MaxItems == 2
MaxComments == 2
MaxLabels == 1
MaxAttachments == 1

Values == {"v0", "v1"}

\* get_object_or_404(Board, pk), then check_object_permissions
get_board_unchecked(user, pk) ==
    IF pk \notin DOMAIN boards THEN "404" ELSE "ok"

get_board(user, pk) ==
    IF pk \notin DOMAIN boards THEN "404"
    ELSE IF ~CanViewBoard(user, boards[pk]) THEN "403"
    ELSE "ok"

\* ItemList.get_list: the permission is checked on list_obj.board
get_list(user, pk) ==
    IF pk \notin DOMAIN lists THEN "404"
    ELSE IF ~CanViewBoard(user, boards[lists[pk].board]) THEN "403"
    ELSE "ok"

\* CommentList.get_item: the permission is checked on item.list.board
get_item(user, pk) ==
    IF pk \notin DOMAIN items THEN "404"
    ELSE IF ~CanViewBoard(user, boards[lists[items[pk].list].board]) THEN "403"
    ELSE "ok"

\* POST /lists (lines 269-277): the parent is looked up before the body is
\* validated, and once more in perform_create
ListShow_post(user, board, valid) ==
    /\ nextId["list"] <= MaxLists
    /\ UNCHANGED <<starred, inflight, memberships, boards, items, comments, labels, attachments,
                   recent, store, now>>
    /\ LET pk == nextId["list"]
           status == IF board = 0 THEN "400"
                     ELSE IF get_board(user, board) # "ok"
                     THEN get_board(user, board)
                     ELSE IF ~valid THEN "400" ELSE "201"
       IN  /\ resp' = Response("ListShow.post", user,
                               IF status = "201" THEN pk ELSE 0, board, NoQ,
                               status, {}, <<>>, valid)
           /\ IF status = "201"
              THEN /\ lists' = Put(lists, pk, [board |-> board])
                   /\ nextId' = [nextId EXCEPT !["list"] = pk + 1]
              ELSE UNCHANGED <<lists, nextId>>

\* POST /labels (lines 577-585)
LabelList_post(user, board, valid, title) ==
    /\ nextId["label"] <= MaxLabels
    /\ UNCHANGED <<starred, inflight, memberships, boards, lists, items, comments, attachments,
                   recent, store, now>>
    /\ LET pk == nextId["label"]
           status == IF board = 0 THEN "400"
                     ELSE IF get_board(user, board) # "ok"
                     THEN get_board(user, board)
                     ELSE IF ~valid THEN "400" ELSE "201"
       IN  /\ resp' = Response("LabelList.post", user,
                               IF status = "201" THEN pk ELSE 0, board, NoQ,
                               status, {}, <<>>, valid)
           /\ IF status = "201"
              THEN /\ labels' = Put(labels, pk, [board |-> board, title |-> title])
                   /\ nextId' = [nextId EXCEPT !["label"] = pk + 1]
              ELSE UNCHANGED <<labels, nextId>>

\* POST /items (lines 366-373): the body is validated by CreateModelMixin
\* before perform_create looks the list up
ItemList_post(user, list, valid) ==
    /\ nextId["item"] <= MaxItems
    /\ UNCHANGED <<starred, inflight, memberships, boards, lists, comments, labels, attachments,
                   recent, store, now>>
    /\ LET pk == nextId["item"]
           status == IF list = 0 THEN "400"
                     ELSE IF ~valid THEN "400"
                     ELSE IF get_list(user, list) # "ok"
                     THEN get_list(user, list)
                     ELSE "201"
       IN  /\ resp' = Response("ItemList.post", user,
                               IF status = "201" THEN pk ELSE 0, list, NoQ,
                               status, {}, <<>>, valid)
           /\ IF status = "201"
              THEN /\ items' = Put(items, pk, NewItem(list))
                   /\ nextId' = [nextId EXCEPT !["item"] = pk + 1]
              ELSE UNCHANGED <<items, nextId>>

\* POST /comments (lines 512-520); the author is the requester
CommentList_post(user, item, valid, body) ==
    /\ nextId["comment"] <= MaxComments
    /\ UNCHANGED <<starred, inflight, memberships, boards, lists, items, labels, attachments,
                   recent, store, now>>
    /\ LET pk == nextId["comment"]
           status == IF item = 0 THEN "400"
                     ELSE IF get_item(user, item) # "ok"
                     THEN get_item(user, item)
                     ELSE IF ~valid THEN "400" ELSE "201"
       IN  /\ resp' = Response("CommentList.post", user,
                               IF status = "201" THEN pk ELSE 0, item, NoQ,
                               status, {}, <<>>, valid)
           /\ IF status = "201"
              THEN /\ comments' = Put(comments, pk,
                            [item |-> item, author |-> user, body |-> body])
                   /\ nextId' = [nextId EXCEPT !["comment"] = pk + 1]
              ELSE UNCHANGED <<comments, nextId>>

\* GET /comments?item= (lines 478-505)
CommentList_get(user, item) ==
    /\ UNCHANGED <<starred, inflight, memberships, boards, childVars, nextId, recent, store, now>>
    /\ LET status == IF item = 0 THEN "400"
                     ELSE IF get_item(user, item) # "ok"
                     THEN get_item(user, item)
                     ELSE "200"
       IN  resp' = Response("CommentList.get", user, 0, item, NoQ, status,
                            IF status = "200" THEN CommentsOf({item}) ELSE {},
                            <<>>, FALSE)

(***************************************************************************)
(* boards/permissions.py (not in the source tree): IsAuthorOrReadOnly, the *)
(* comment rule of the specification: a read follows the board of          *)
(* comment.item.list.board, a write is the author's.                       *)
(***************************************************************************)
SafeMethods == {"GET", "HEAD", "OPTIONS"}

IsAuthorOrReadOnly(user, method, comment) ==
    IF method \in SafeMethods
    THEN can_view_board(user, boards[lists[items[comment.item].list].board])
    ELSE comment.author = user

\* CommentDetail.get_object (lines 527-531)
CommentDetail_get_object_unchecked(user, method, pk) ==
    IF pk \notin DOMAIN comments THEN "404" ELSE "ok"

CommentDetail_get_object(user, method, pk) ==
    IF pk \notin DOMAIN comments THEN "404"
    ELSE IF ~IsAuthorOrReadOnly(user, method, comments[pk]) THEN "403"
    ELSE "ok"

\* GET /comments/{pk}
CommentDetail_retrieve(user, pk) ==
    /\ UNCHANGED <<starred, inflight, memberships, boards, childVars, nextId, recent, store, now>>
    /\ LET got == CommentDetail_get_object(user, "GET", pk)
       IN  resp' = Response("CommentDetail.get", user, pk, 0, NoQ,
                            IF got = "ok" THEN "200" ELSE got,
                            IF got = "ok" THEN {pk} ELSE {}, <<>>, FALSE)

\* PUT /comments/{pk}
CommentDetail_update(user, pk, valid, body) ==
    /\ UNCHANGED <<starred, inflight, memberships, boards, lists, items, labels, attachments,
                   nextId, recent, store, now>>
    /\ LET got == CommentDetail_get_object(user, "PUT", pk)
           status == IF got # "ok" THEN got ELSE IF ~valid THEN "400" ELSE "200"
       IN  /\ resp' = Response("CommentDetail.put", user, pk, 0, NoQ, status,
                               {}, <<>>, valid)
           /\ comments' = IF status = "200"
                          THEN [comments EXCEPT ![pk].body = body]
                          ELSE comments

\* DELETE /comments/{pk}
CommentDetail_destroy(user, pk) ==
    /\ UNCHANGED <<starred, inflight, memberships, boards, lists, items, labels, attachments,
                   nextId, recent, store, now>>
    /\ LET got == CommentDetail_get_object(user, "DELETE", pk)
       IN  /\ resp' = Response("CommentDetail.delete", user, pk, 0, NoQ,
                               IF got = "ok" THEN "204" ELSE got, {}, <<>>, FALSE)
           /\ comments' = IF got = "ok" THEN Remove(comments, pk) ELSE comments

\* LabelDetail as the module binds it: the class of lines 599-604 replaces
\* the one of lines 588-596; queryset Label.objects.all(), AllowAny
LabelDetail_get_object(user, pk) ==
    IF pk \notin DOMAIN labels THEN "404" ELSE "ok"

\* GET /labels/{pk}
LabelDetail_retrieve(user, pk) ==
    /\ UNCHANGED <<starred, inflight, memberships, boards, childVars, nextId, recent, store, now>>
    /\ LET got == LabelDetail_get_object(user, pk)
       IN  resp' = Response("LabelDetail.get", user, pk, 0, NoQ,
                            IF got = "ok" THEN "200" ELSE got,
                            IF got = "ok" THEN {pk} ELSE {}, <<>>, FALSE)

\* PUT /labels/{pk}
LabelDetail_update(user, pk, valid, title) ==
    /\ UNCHANGED <<starred, inflight, memberships, boards, lists, items, comments, attachments,
                   nextId, recent, store, now>>
    /\ LET got == LabelDetail_get_object(user, pk)
           status == IF got # "ok" THEN got ELSE IF ~valid THEN "400" ELSE "200"
       IN  /\ resp' = Response("LabelDetail.put", user, pk, 0, NoQ, status,
                               {}, <<>>, valid)
           /\ labels' = IF status = "200"
                        THEN [labels EXCEPT ![pk].title = title]
                        ELSE labels

\* DELETE /labels/{pk}
LabelDetail_destroy(user, pk) ==
    /\ UNCHANGED <<starred, inflight, memberships, boards, lists, comments, attachments,
                   nextId, recent, store, now>>
    /\ LET got == LabelDetail_get_object(user, pk)
       IN  /\ resp' = Response("LabelDetail.delete", user, pk, 0, NoQ,
                               IF got = "ok" THEN "204" ELSE got, {}, <<>>, FALSE)
           /\ labels' = IF got = "ok" THEN Remove(labels, pk) ELSE labels
           \* the rows of Item.labels that name the label go with it
           /\ items' = IF got = "ok"
                       THEN [i \in DOMAIN items |->
                               [items[i] EXCEPT !.labels = @ \ {pk}]]
                       ELSE items

\* GET of the attachment list (lines 607-612): Attachment.objects.all()
AttachmentList_get(user) ==
    /\ UNCHANGED <<starred, inflight, memberships, boards, childVars, nextId, recent, store, now>>
    /\ resp' = Response("AttachmentList.get", user, 0, 0, NoQ, "200",
                        DOMAIN attachments, <<>>, FALSE)

\* POST of an attachment: the serializer validates the body, the item with it
AttachmentList_post(user, item, valid, upload) ==
    /\ nextId["attachment"] <= MaxAttachments
    /\ UNCHANGED <<starred, inflight, memberships, boards, lists, items, comments, labels,
                   recent, store, now>>
    /\ LET pk == nextId["attachment"]
           status == IF ~valid \/ item \notin DOMAIN items THEN "400" ELSE "201"
       IN  /\ resp' = Response("AttachmentList.post", user,
                               IF status = "201" THEN pk ELSE 0, item, NoQ,
                               status, {}, <<>>, valid)
           /\ IF status = "201"
              THEN /\ attachments' = Put(attachments, pk,
                                         [item |-> item, upload |-> upload])
                   /\ nextId' = [nextId EXCEPT !["attachment"] = pk + 1]
              ELSE UNCHANGED <<attachments, nextId>>

\* AttachmentDetail (lines 615-620): Attachment.objects.all(), AllowAny
AttachmentDetail_get_object(user, pk) ==
    IF pk \notin DOMAIN attachments THEN "404" ELSE "ok"

AttachmentDetail_retrieve(user, pk) ==
    /\ UNCHANGED <<starred, inflight, memberships, boards, childVars, nextId, recent, store, now>>
    /\ LET got == AttachmentDetail_get_object(user, pk)
       IN  resp' = Response("AttachmentDetail.get", user, pk, 0, NoQ,
                            IF got = "ok" THEN "200" ELSE got,
                            IF got = "ok" THEN {pk} ELSE {}, <<>>, FALSE)

AttachmentDetail_update(user, pk, valid, upload) ==
    /\ UNCHANGED <<starred, inflight, memberships, boards, lists, items, comments, labels,
                   nextId, recent, store, now>>
    /\ LET got == AttachmentDetail_get_object(user, pk)
           status == IF got # "ok" THEN got ELSE IF ~valid THEN "400" ELSE "200"
       IN  /\ resp' = Response("AttachmentDetail.put", user, pk, 0, NoQ, status,
                               {}, <<>>, valid)
           /\ attachments' = IF status = "200"
                             THEN [attachments EXCEPT ![pk].upload = upload]
                             ELSE attachments

AttachmentDetail_destroy(user, pk) ==
    /\ UNCHANGED <<starred, inflight, memberships, boards, lists, items, comments, labels,
                   nextId, recent, store, now>>
    /\ LET got == AttachmentDetail_get_object(user, pk)
       IN  /\ resp' = Response("AttachmentDetail.delete", user, pk, 0, NoQ,
                               IF got = "ok" THEN "204" ELSE got, {}, <<>>, FALSE)
           /\ attachments' = IF got = "ok" THEN Remove(attachments, pk)
                             ELSE attachments

(***************************************************************************)
(* Creation below two boards: board 1 of user 1, board 2 of project 1      *)
(* (both created through POST /boards), under any membership graph.        *)
(***************************************************************************)
TwoBoards ==
    (1 :> NewBoard(1, "customuser", BoardData({"title"}, <<"a", "B">>, 0, "None", "", "")))
    @@ (2 :> NewBoard(1, "project", BoardData({"title"}, <<"a", "B">>, 0, "None", "", "")))

CreateInit ==
    /\ memberships \in MembershipGraphs
    /\ boards = TwoBoards
    /\ lists = Empty
    /\ items = Empty
    /\ comments = Empty
    /\ labels = Empty
    /\ attachments = Empty
    /\ nextId = [t \in Tables |-> IF t = "board" THEN 3 ELSE 1]
    /\ recent = [u \in Users |-> Empty]
    /\ store = "up"
    /\ now = ClockStart
    /\ resp = NoResponse
    /\ starred = [u \in Users |-> {}]
    /\ inflight = NoRequests

CreateNext ==
    \/ \E u \in Users, b \in 0..3, valid \in BOOLEAN : ListShow_post(u, b, valid)
    \/ \E u \in Users, b \in 0..3, valid \in BOOLEAN :
          LabelList_post(u, b, valid, "v0")
    \/ \E u \in Users, l \in 0..(MaxLists + 1), valid \in BOOLEAN :
          ItemList_post(u, l, valid)
    \/ \E u \in Users, i \in 0..(MaxItems + 1), valid \in BOOLEAN :
          CommentList_post(u, i, valid, "v0")
    \/ \E p \in Projects, u \in Users : AddMember(p, u, "member")
    \/ \E p \in Projects, u \in Users : RemoveMember(p, u)

CreateSpec == CreateInit /\ [][CreateNext]_vars

(***************************************************************************)
(* Comments, labels and attachments below a list and an item on each of    *)
(* the two boards.                                                         *)
(***************************************************************************)
ChildInit ==
    /\ memberships \in MembershipGraphs
    /\ boards = TwoBoards
    /\ lists = (1 :> [board |-> 1]) @@ (2 :> [board |-> 2])
    /\ items = (1 :> NewItem(1)) @@ (2 :> NewItem(2))
    /\ comments = Empty
    /\ labels = Empty
    /\ attachments = Empty
    /\ nextId = [t \in Tables |->
                    IF t \in {"board", "list", "item"} THEN 3 ELSE 1]
    /\ recent = [u \in Users |-> Empty]
    /\ store = "up"
    /\ now = ClockStart
    /\ resp = NoResponse
    /\ starred = [u \in Users |-> {}]
    /\ inflight = NoRequests

CommentsNext ==
    \/ \E u \in Users, i \in {1, 2} : CommentList_post(u, i, TRUE, "v0")
    \/ \E u \in Users, i \in 0..3 : CommentList_get(u, i)
    \/ \E u \in Users, pk \in 1..MaxComments : CommentDetail_retrieve(u, pk)
    \/ \E u \in Users, pk \in 1..MaxComments, valid \in BOOLEAN, v \in Values :
          CommentDetail_update(u, pk, valid, v)
    \/ \E u \in Users, pk \in 1..MaxComments : CommentDetail_destroy(u, pk)
    \/ \E p \in Projects, u \in Users : AddMember(p, u, "member")
    \/ \E p \in Projects, u \in Users : RemoveMember(p, u)

CommentsSpec == ChildInit /\ [][CommentsNext]_vars

LabelsNext ==
    \/ \E u \in Users, b \in {1, 2} : LabelList_post(u, b, TRUE, "v0")
    \/ \E u \in Users, pk \in 1..(MaxLabels + 1) : LabelDetail_retrieve(u, pk)
    \/ \E u \in Users, pk \in 1..MaxLabels, valid \in BOOLEAN, v \in Values :
          LabelDetail_update(u, pk, valid, v)
    \/ \E u \in Users, pk \in 1..MaxLabels : LabelDetail_destroy(u, pk)
    \/ \E u \in Users : AttachmentList_get(u)
    \/ \E u \in Users, i \in 1..3, valid \in BOOLEAN :
          AttachmentList_post(u, i, valid, "v0")
    \/ \E u \in Users, pk \in 1..MaxAttachments : AttachmentDetail_retrieve(u, pk)
    \/ \E u \in Users, pk \in 1..MaxAttachments, valid \in BOOLEAN, v \in Values :
          AttachmentDetail_update(u, pk, valid, v)
    \/ \E u \in Users, pk \in 1..MaxAttachments : AttachmentDetail_destroy(u, pk)
    \/ \E p \in Projects, u \in Users : AddMember(p, u, "member")
    \/ \E p \in Projects, u \in Users : RemoveMember(p, u)

LabelsSpec == ChildInit /\ [][LabelsNext]_vars

(***************************************************************************)
(* The reference predicates the claims are stated with.                    *)
(***************************************************************************)
IsMember(u, p) ==
    \E level \in AccessLevels :
        [project |-> p, member |-> u, access_level |-> level] \in memberships

MayView(u, board) ==
    \/ board.owner_model = "project" /\ IsMember(u, board.owner_id)
    \/ board.owner_model = "customuser" /\ board.owner_id = u

DetailOps == {"BoardDetail.get", "BoardDetail.put", "BoardDetail.delete"}

(***************************************************************************)
(* C1: can_view_board(u, B) is true for a project-owned board iff u has a  *)
(* membership of that project, whatever its access level, and for a        *)
(* user-owned board iff u is the owner.                                    *)
(***************************************************************************)
C1_CanViewMatchesReference ==
    resp.op = "can_view_board" =>
        LET B == boards[resp.pk]
        IN  /\ B.owner_model = "project" =>
                    (resp.result <=> IsMember(resp.user, B.owner_id))
            /\ B.owner_model = "customuser" =>
                    (resp.result <=> B.owner_id = resp.user)

\* a plain member, whose id is not the project's, is allowed on a project
\* board
C1_Witness ==
    /\ resp.op = "can_view_board"
    /\ resp.result
    /\ boards[resp.pk].owner_model = "project"
    /\ boards[resp.pk].owner_id # resp.user
    /\ [project |-> boards[resp.pk].owner_id, member |-> resp.user,
        access_level |-> "member"] \in memberships

(***************************************************************************)
(* C2: a board whose owner kind is neither user nor project is denied to   *)
(* every user (fail closed).                                               *)
(***************************************************************************)
C2_FailClosed ==
    (/\ resp.op = "can_view_board"
     /\ boards[resp.pk].owner_model \notin {"customuser", "project"})
        => ~resp.result

(***************************************************************************)
(* C3: GET /boards without project, sort and q returns exactly the boards  *)
(* the requester owns and the boards of the projects the requester is a    *)
(* member of at the time of the call.                                      *)
(***************************************************************************)
C3_PlainListExact ==
    (resp.op = "BoardList.get" /\ resp.parent = 0 /\ resp.q = NoQ) =>
        /\ resp.status = "200"
        /\ resp.ids = {b \in DOMAIN boards : MayView(resp.user, boards[b])}

\* a listing with a project board in it and another board left out
C3_Witness ==
    /\ resp.op = "BoardList.get" /\ resp.parent = 0 /\ resp.q = NoQ
    /\ \E b \in resp.ids : boards[b].owner_model = "project"
    /\ \E b \in DOMAIN boards : b \notin resp.ids

(***************************************************************************)
(* C4: every board GET /boards returns, in every query mode, is a board    *)
(* the requester can view at the time of the response.                     *)
(***************************************************************************)
C4_ListedBoardsViewable ==
    (resp.op \in {"BoardList.get", "BoardList.get.recent"}) =>
        \A b \in resp.ids : b \in DOMAIN boards /\ MayView(resp.user, boards[b])

C9_MostRecentFirst ==
    [][\A u \in Users, pk \in BoardIds :
        (resp'.op = "BoardDetail.get" /\ resp'.status = "200"
         /\ resp'.user = u /\ resp'.pk = pk)
            => Head(RecentBoards(u))' = pk]_vars

(***************************************************************************)
(* C10: with the recency store unreachable, GET /boards/{id} of a viewable *)
(* board still returns the board and GET /boards?sort=recent returns the   *)
(* empty result; no error reaches the caller.                              *)
(***************************************************************************)
C10_OutageNeverFails ==
    store # "up" =>
        /\ (/\ resp.op = "BoardDetail.get"
            /\ resp.pk \in DOMAIN boards
            /\ MayView(resp.user, boards[resp.pk])) => resp.status = "200"
        /\ resp.op = "BoardList.get.recent" =>
                (resp.status = "200" /\ resp.seq = <<>>)

BoardOfList(l) == boards[lists[l].board]
BoardOfItem(i) == BoardOfList(items[i].list)

Succeeded(r) == r.status \in {"200", "201", "204"}

(***************************************************************************)
(* C6: a retrieve, update or delete of a label or of an attachment, and    *)
(* a listing of attachments, succeeds only for a requester who can view    *)
(* the owning board.                                                       *)
(***************************************************************************)
C6_ChildrenInheritBoardPolicy ==
    [][\A u \in Users :
        (resp'.user = u /\ Succeeded(resp')) =>
            /\ (/\ resp'.op \in {"LabelDetail.get", "LabelDetail.put",
                                 "LabelDetail.delete"}
                /\ resp'.pk \in DOMAIN labels)
                    => MayView(u, boards[labels[resp'.pk].board])
            /\ (/\ resp'.op \in {"AttachmentDetail.get", "AttachmentDetail.put",
                                 "AttachmentDetail.delete"}
                /\ resp'.pk \in DOMAIN attachments)
                    => MayView(u, BoardOfItem(attachments[resp'.pk].item))
            /\ resp'.op = "AttachmentList.get" =>
                    \A a \in resp'.ids :
                        MayView(u, BoardOfItem(attachments[a].item))]_vars

(***************************************************************************)
(* C7: an update or delete of a comment succeeds, and changes the comment  *)
(* table, only for the comment's author; a read of a comment, by           *)
(* GET /comments?item= or GET /comments/{id}, succeeds only for a          *)
(* requester who can view the board of comment.item.list.board.            *)
(***************************************************************************)
C7_CommentAuthorization ==
    [][\A u \in Users :
        resp'.user = u =>
            /\ (/\ resp'.op \in {"CommentDetail.put", "CommentDetail.delete"}
                /\ Succeeded(resp') \/ comments' # comments)
                    => /\ resp'.pk \in DOMAIN comments
                       /\ comments[resp'.pk].author = u
            /\ (resp'.op = "CommentDetail.get" /\ Succeeded(resp'))
                    => /\ resp'.pk \in DOMAIN comments
                       /\ MayView(u, BoardOfItem(comments[resp'.pk].item))
            /\ (resp'.op = "CommentList.get" /\ Succeeded(resp'))
                    => /\ resp'.parent \in DOMAIN items
                       /\ MayView(u, BoardOfItem(resp'.parent))]_vars

\* the author has rewritten a comment that another user, who can view the
\* board, could only read
C7_Witness ==
    /\ resp.op = "CommentDetail.put"
    /\ resp.status = "200"
    /\ comments[resp.pk].author = resp.user
    /\ comments[resp.pk].body = "v1"
    /\ \E v \in Users \ {resp.user} :
          MayView(v, BoardOfItem(comments[resp.pk].item))

(***************************************************************************)
(* The parent of a create request: its table and the board it hangs from.  *)
(***************************************************************************)
CreateOps == {"ListShow.post", "LabelList.post", "ItemList.post", "CommentList.post"}

ParentExists(op, id) ==
    IF op \in {"ListShow.post", "LabelList.post"} THEN id \in DOMAIN boards
    ELSE IF op = "ItemList.post" THEN id \in DOMAIN lists
    ELSE id \in DOMAIN items

ParentBoard(op, id) ==
    IF op \in {"ListShow.post", "LabelList.post"} THEN boards[id]
    ELSE IF op = "ItemList.post" THEN BoardOfList(id)
    ELSE BoardOfItem(id)

(***************************************************************************)
(* C8 as stated: a create adds an entity only with the parent id present,  *)
(* the parent existing and its board viewable; an absent or non-existent   *)
(* parent is rejected with ValidationError (400), a requester who cannot   *)
(* view the board with PermissionError (403).                              *)
(***************************************************************************)
C8_CreateRejections ==
    resp.op \in CreateOps =>
        /\ resp.status = "201" =>
                /\ resp.parent # 0
                /\ ParentExists(resp.op, resp.parent)
                /\ MayView(resp.user, ParentBoard(resp.op, resp.parent))
        /\ (resp.parent = 0 \/ ~ParentExists(resp.op, resp.parent))
                => resp.status = "400"
        /\ (/\ resp.parent # 0
            /\ ParentExists(resp.op, resp.parent)
            /\ ~MayView(resp.user, ParentBoard(resp.op, resp.parent)))
                => resp.status = "403"

(***************************************************************************)
(* C8 as amended: a create adds an entity only with the parent id present, *)
(* the parent existing and its board viewable; an absent parent id is      *)
(* rejected with 400, a non-existent parent with 404 and a requester who   *)
(* cannot view the board with 403, except that POST /items validates the   *)
(* body first and answers an invalid body with 400 whatever its list; a    *)
(* rejected request creates nothing.                                       *)
(***************************************************************************)
C8_CreateRejectionsNotFound ==
    [][resp'.op \in CreateOps =>
        LET op == resp'.op
            parent == resp'.parent
            bodyFirst == op = "ItemList.post" /\ ~resp'.result
        IN  /\ resp'.status = "201" =>
                    /\ parent # 0
                    /\ ParentExists(op, parent)
                    /\ MayView(resp'.user, ParentBoard(op, parent))
            /\ parent = 0 => resp'.status = "400"
            /\ bodyFirst => resp'.status = "400"
            /\ (parent # 0 /\ ~ParentExists(op, parent) /\ ~bodyFirst)
                    => resp'.status = "404"
            /\ (/\ parent # 0
                /\ ParentExists(op, parent)
                /\ ~MayView(resp'.user, ParentBoard(op, parent))
                /\ ~bodyFirst)
                    => resp'.status = "403"
            /\ resp'.status # "201" => UNCHANGED <<childVars, nextId>>]_vars

\* a list request naming a board that does not exist was answered 404 after
\* lists had been created
C8_Witness ==
    /\ resp.op = "ListShow.post"
    /\ resp.status = "404"
    /\ resp.parent # 0
    /\ resp.parent \notin DOMAIN boards
    /\ DOMAIN lists # {}

(***************************************************************************)
(* boards/views.py: BoardStar.  A toggle asks whether the row is there and *)
(* then removes or adds it; seen is the answer of the exists() query.      *)
(***************************************************************************)
toggle_add_only(set, x, seen) == set \cup {x}

toggle(set, x, seen) == IF seen THEN set \ {x} ELSE set \cup {x}

BoardStar_get_board(user, pk) ==
    IF pk \notin DOMAIN boards THEN "404"
    ELSE IF ~CanViewBoard(user, boards[pk]) THEN "403"
    ELSE "ok"

\* POST /boards/star; board = 0 is a body without the 'board' key
BoardStar_post(user, board) ==
    /\ UNCHANGED <<inflight, memberships, boards, childVars, nextId, recent,
                   store, now>>
    /\ LET status == IF board = 0 THEN "400"
                     ELSE IF BoardStar_get_board(user, board) # "ok"
                     THEN BoardStar_get_board(user, board)
                     ELSE "204"
       IN  /\ starred' = IF status = "204"
                         THEN [starred EXCEPT
                                 ![user] = toggle(@, board, board \in @)]
                         ELSE starred
           /\ resp' = Response("BoardStar.post", user, board, 0, NoQ, status,
                               {}, <<>>, FALSE)

StarPks == 0..(MaxBoards + 1)

StarNext ==
    \/ \E u \in Users, b \in StarPks : BoardStar_post(u, b)
    \/ \E p \in Projects, m \in Users, level \in AccessLevels :
          AddMember(p, m, level)
    \/ \E p \in Projects, m \in Users : RemoveMember(p, m)

StarSpec == CreateInit /\ [][StarNext]_vars

(***************************************************************************)
(* C11: one POST /boards/star for a board B that the requester u can view  *)
(* flips B's membership of u's starred boards and nothing else: the other  *)
(* boards of u's set and the sets of the other users stay, and the same    *)
(* call once more gives the set back as it was.  A request for a board     *)
(* that u cannot view changes no set.                                      *)
(***************************************************************************)
C11_StarToggle ==
    [][\A u \in Users, B \in StarPks :
        (resp'.op = "BoardStar.post" /\ resp'.user = u /\ resp'.pk = B) =>
            IF B \in DOMAIN boards /\ MayView(u, boards[B])
            THEN /\ resp'.status = "204"
                 /\ (B \in starred'[u]) <=> (B \notin starred[u])
                 /\ starred'[u] \ {B} = starred[u] \ {B}
                 /\ \A v \in Users \ {u} : starred'[v] = starred[v]
                 /\ toggle(starred'[u], B, B \in starred'[u]) = starred[u]
            ELSE starred' = starred]_vars

\* a board was unstarred again while another board of the same user and a
\* board of another user stayed starred
C11_Witness ==
    /\ resp.op = "BoardStar.post"
    /\ resp.status = "204"
    /\ resp.pk \notin starred[resp.user]
    /\ starred[resp.user] # {}
    /\ \E v \in Users \ {resp.user} : starred[v] # {}

(***************************************************************************)
(* boards/views.py: ItemDetail.  The body of a PUT: keys are the keys that *)
(* it carries, valid is the answer of serializer.is_valid(); assigned_to   *)
(* is a user name, labels a label id and list a list id (0: not carried).  *)
(***************************************************************************)
ItemData(keys, valid, assigned_to, label, list, image, image_url, color) ==
    [keys |-> keys, valid |-> valid, assigned_to |-> assigned_to,
     labels |-> label, list |-> list, image |-> image,
     image_url |-> image_url, color |-> color]

\* the names that a lookup on CustomUser resolves: the fields of lines 13-24
\* and those of AbstractBaseUser and PermissionsMixin
CustomUserFields ==
    {"id", "password", "last_login", "is_superuser", "groups",
     "user_permissions", "email", "first_name", "last_name", "is_active",
     "is_staff", "is_email_verified", "date_joined", "profile_pic", "boards",
     "starred_boards"}

\* get_object_or_404(User, username=username): the lookup of a name that the
\* model does not have raises FieldError, which get_object_or_404 lets
\* through.  board is the id of item.list.board.
ItemDetail_get_user(username, board) ==
    IF "username" \notin CustomUserFields THEN "FieldError"
    ELSE IF username \notin Users THEN "404"
    ELSE IF can_view_board(username, boards[board]) THEN "ok"
    ELSE "None"

ItemDetail_get_label(pk, board) ==
    IF pk \notin DOMAIN labels THEN "404"
    ELSE IF board = labels[pk].board THEN "ok"
    ELSE "None"

ItemDetail_get_list(pk, board) ==
    IF pk \notin DOMAIN lists THEN "404"
    ELSE IF board = lists[pk].board THEN "ok"
    ELSE "None"

ItemDetail_get_object(user, pk) ==
    IF pk \notin DOMAIN items THEN "404"
    ELSE IF ~CanViewBoard(user, boards[lists[items[pk].list].board]) THEN "403"
    ELSE "ok"

\* the look-ups of put (lines 411-431) in their order: the first that fails
\* ends the request
ItemDetail_put_checks(user, pk, data) ==
    LET board == lists[items[pk].list].board
        Failed(got) == IF got = "FieldError" THEN "500"
                       ELSE IF got = "None" THEN "400"
                       ELSE got
    IN  IF ItemDetail_get_object(user, pk) # "ok"
        THEN ItemDetail_get_object(user, pk)
        ELSE IF /\ "assigned_to" \in data.keys
                /\ ItemDetail_get_user(data.assigned_to, board) # "ok"
        THEN Failed(ItemDetail_get_user(data.assigned_to, board))
        ELSE IF /\ "labels" \in data.keys
                /\ ItemDetail_get_label(data.labels, board) # "ok"
        THEN Failed(ItemDetail_get_label(data.labels, board))
        ELSE IF /\ "list" \in data.keys
                /\ ItemDetail_get_list(data.list, board) # "ok"
        THEN Failed(ItemDetail_get_list(data.list, board))
        ELSE "ok"

\* serializer.save(): the validated appearance fields reach the row
ItemValidated(item, data) ==
    [item EXCEPT
        !.image = IF "image" \in data.keys THEN data.image ELSE @,
        !.image_url = IF "image_url" \in data.keys THEN data.image_url ELSE @,
        !.color = IF "color" \in data.keys THEN data.color ELSE @]

\* perform_update (lines 433-466): the save of the appearance, the two
\* toggles, and a second save that carries the list
ItemDetail_perform_update(item, data) ==
    LET board == lists[item.list].board
        saved ==
            IF "image" \in data.keys
            THEN [ItemValidated(item, data) EXCEPT !.image_url = "", !.color = ""]
            ELSE IF "image_url" \in data.keys
            THEN [ItemValidated(item, data) EXCEPT !.image = "None", !.color = ""]
            ELSE IF "color" \in data.keys
            THEN [ItemValidated(item, data) EXCEPT !.image = "None", !.image_url = ""]
            ELSE ItemValidated(item, data)
        assigned ==
            IF "assigned_to" \in data.keys
            THEN [saved EXCEPT !.assigned_to =
                     toggle(@, data.assigned_to, data.assigned_to \in @)]
            ELSE saved
        labelled ==
            IF "labels" \in data.keys
            THEN [assigned EXCEPT !.labels =
                     toggle(@, data.labels, data.labels \in @)]
            ELSE assigned
    IN  IF "list" \in data.keys
        THEN [ItemValidated(labelled, data) EXCEPT !.list = data.list]
        ELSE labelled

\* PUT /items/{pk}: put's look-ups, then UpdateModelMixin.update, which
\* validates the body and calls perform_update
ItemDetail_put(user, pk, data) ==
    /\ UNCHANGED <<starred, inflight, memberships, boards, lists, comments,
                   labels, attachments, nextId, recent, store, now>>
    /\ LET checked == IF pk \in DOMAIN items
                      THEN ItemDetail_put_checks(user, pk, data)
                      ELSE "404"
           status == IF checked # "ok" THEN checked
                     ELSE IF ~data.valid THEN "400"
                     ELSE "200"
       IN  /\ items' = IF status = "200"
                       THEN [items EXCEPT
                               ![pk] = ItemDetail_perform_update(@, data)]
                       ELSE items
           /\ resp' = [Response("ItemDetail.put", user, pk, 0, NoQ, status,
                                {}, <<>>, FALSE)
                           EXCEPT !.data = data]

(***************************************************************************)
(* The item updates on two boards: board 1 has lists 1 and 3 and label 1,  *)
(* board 2 has list 2 and label 2; item 1 is on list 1, item 2 on list 2.  *)
(***************************************************************************)
ItemInit ==
    /\ memberships \in {M \in MembershipGraphs :
                            \A m \in M : m.access_level = "member"}
    /\ boards = TwoBoards
    /\ lists = (1 :> [board |-> 1]) @@ (2 :> [board |-> 2]) @@ (3 :> [board |-> 1])
    /\ items = (1 :> NewItem(1)) @@ (2 :> NewItem(2))
    /\ comments = Empty
    /\ labels = (1 :> [board |-> 1, title |-> "v0"])
                @@ (2 :> [board |-> 2, title |-> "v0"])
    /\ attachments = Empty
    /\ nextId = [t \in Tables |->
                    IF t = "list" THEN 4
                    ELSE IF t \in {"board", "item", "label"} THEN 3 ELSE 1]
    /\ recent = [u \in Users |-> Empty]
    /\ store = "up"
    /\ now = ClockStart
    /\ resp = NoResponse
    /\ starred = [u \in Users |-> {}]
    /\ inflight = NoRequests

\* a body names a user, a label of either board, a list of either board or
\* a colour, in every combination; one more body fails validation
ItemPutData ==
    {ItemData(keys, TRUE,
              IF "assigned_to" \in keys THEN a ELSE 0,
              IF "labels" \in keys THEN l ELSE 0,
              IF "list" \in keys THEN t ELSE 0,
              "None", "",
              IF "color" \in keys THEN "red" ELSE "") :
        keys \in SUBSET {"assigned_to", "labels", "list", "color"},
        a \in Users, l \in {1, 2}, t \in {2, 3}}
    \cup {ItemData({"color"}, FALSE, 0, 0, 0, "None", "", "red")}

ItemPks == 1..(MaxItems + 1)

ItemNext == \E u \in Users, pk \in ItemPks, data \in ItemPutData :
                ItemDetail_put(u, pk, data)

ItemSpec == ItemInit /\ [][ItemNext]_vars

\* what a PUT on an item needs besides the field that a claim is about: a
\* requester who can view the item's board, a body that validates, and a
\* label and a list, where the body names them, of the item's board
ItemPutAcceptable(u, pk, data, field) ==
    /\ pk \in DOMAIN items
    /\ MayView(u, BoardOfItem(pk))
    /\ data.valid
    /\ ("labels" \in data.keys \ {field}) =>
            /\ data.labels \in DOMAIN labels
            /\ labels[data.labels].board = lists[items[pk].list].board
    /\ ("list" \in data.keys \ {field}) =>
            /\ data.list \in DOMAIN lists
            /\ lists[data.list].board = lists[items[pk].list].board
    /\ ("assigned_to" \in data.keys \ {field}) =>
            /\ data.assigned_to \in Users
            /\ MayView(data.assigned_to, BoardOfItem(pk))

(***************************************************************************)
(* C12: a PUT /items/{id} with assigned_to = v, v a user who can view the  *)
(* item's board, adds v to item.assigned_to when v is not in it and        *)
(* removes v when it is; one PUT always changes the set, and the same PUT  *)
(* once more restores it.                                                  *)
(***************************************************************************)
C12_AssignmentToggle ==
    [][\A pk \in DOMAIN items, v \in Users :
        (/\ resp'.op = "ItemDetail.put"
         /\ resp'.pk = pk
         /\ "assigned_to" \in resp'.data.keys
         /\ resp'.data.assigned_to = v
         /\ MayView(v, BoardOfItem(pk))
         /\ ItemPutAcceptable(resp'.user, pk, resp'.data, "assigned_to")) =>
            /\ (v \in items'[pk].assigned_to) <=> (v \notin items[pk].assigned_to)
            /\ items'[pk].assigned_to \ {v} = items[pk].assigned_to \ {v}
            /\ toggle(items'[pk].assigned_to, v, v \in items'[pk].assigned_to)
                   = items[pk].assigned_to]_vars

(***************************************************************************)
(* C14: a PUT /items/{id} whose list names a list of another board is      *)
(* answered 400 (ValidationError) and leaves the item's row as it was      *)
(* (list, assigned_to, labels and appearance), also when the same body     *)
(* carries a valid assigned_to, a valid label or an appearance field.      *)
(***************************************************************************)
C14_CrossBoardMoveRejected ==
    [][\A pk \in DOMAIN items :
        (/\ resp'.op = "ItemDetail.put"
         /\ resp'.pk = pk
         /\ "list" \in resp'.data.keys
         /\ resp'.data.list \in DOMAIN lists
         /\ lists[resp'.data.list].board # lists[items[pk].list].board
         /\ ItemPutAcceptable(resp'.user, pk, resp'.data, "list")) =>
            /\ resp'.status = "400"
            /\ items'[pk] = items[pk]]_vars

\* the labels of an item are labels of the board that the item's list is on
LabelsOfItemsBoard ==
    \A i \in DOMAIN items : \A l \in items[i].labels :
        /\ l \in DOMAIN labels
        /\ labels[l].board = lists[items[i].list].board

(***************************************************************************)
(* C15: in every state that item updates reach, every label of an item     *)
(* belongs to the board of the item's list; a PUT /items/{id} whose labels *)
(* names a label of another board is answered 400 (ValidationError) and    *)
(* leaves item.labels as it was.                                           *)
(***************************************************************************)
C15_LabelsStayOnBoard ==
    /\ []LabelsOfItemsBoard
    /\ [][\A pk \in DOMAIN items :
            (/\ resp'.op = "ItemDetail.put"
             /\ resp'.pk = pk
             /\ "labels" \in resp'.data.keys
             /\ resp'.data.labels \in DOMAIN labels
             /\ labels[resp'.data.labels].board # lists[items[pk].list].board
             /\ ItemPutAcceptable(resp'.user, pk, resp'.data, "labels")) =>
                /\ resp'.status = "400"
                /\ items'[pk].labels = items[pk].labels]_vars

\* an item that was moved to another list of its board carries a label
C15_Witness ==
    /\ resp.op = "ItemDetail.put"
    /\ resp.status = "200"
    /\ items[1].list = 3
    /\ items[1].labels = {1}

(***************************************************************************)
(* The backgrounds of boards: boards are created with any of the three     *)
(* appearance fields and updated with any combination of them.             *)
(***************************************************************************)
AppearanceKeys == {"image", "image_url", "color"}
AppearanceTitles == {<<"a", "B">>, <<"c">>}

AppearanceData ==
    {BoardData({"title"} \cup keys, t, 0,
               IF "image" \in keys THEN "img" ELSE "None",
               IF "image_url" \in keys THEN "url" ELSE "",
               IF "color" \in keys THEN "red" ELSE "") :
        keys \in SUBSET AppearanceKeys, t \in AppearanceTitles}

\* a board is created plain or with a picture's address and a colour
AppearancePostData ==
    {data \in AppearanceData :
        /\ data.title = <<"a", "B">>
        /\ data.keys \in {{"title"}, {"title", "image_url", "color"}}}

AppearanceNext ==
    \/ \E data \in AppearancePostData : BoardList_post(1, TRUE, data)
    \/ \E u \in Users, pk \in BoardIds, valid \in BOOLEAN,
          data \in AppearanceData : BoardDetail_update(u, pk, valid, data)

AppearanceSpec == Init /\ [][AppearanceNext]_vars

NonEmptyAppearance(board) ==
    {k \in AppearanceKeys :
        \/ k = "image" /\ board.image # "None"
        \/ k = "image_url" /\ board.image_url # ""
        \/ k = "color" /\ board.color # ""}

(***************************************************************************)
(* C13: after a successful PUT /boards/{id} that carries image, image_url  *)
(* or color, at most one of the board's three appearance fields is         *)
(* non-empty, also when the body carries more than one of them; a body     *)
(* with one of them stores it and clears the other two.                    *)
(***************************************************************************)
C13_SingleActiveBackground ==
    [][\A pk \in DOMAIN boards :
        (/\ resp'.op = "BoardDetail.put"
         /\ resp'.status = "200"
         /\ resp'.pk = pk
         /\ resp'.data.keys \cap AppearanceKeys # {}) =>
            LET carried == resp'.data.keys \cap AppearanceKeys
                after == boards'[pk]
            IN  /\ Cardinality(NonEmptyAppearance(after)) <= 1
                /\ carried = {"image"} =>
                      /\ after.image = resp'.data.image
                      /\ after.image_url = "" /\ after.color = ""
                /\ carried = {"image_url"} =>
                      /\ after.image_url = resp'.data.image_url
                      /\ after.image = "None" /\ after.color = ""
                /\ carried = {"color"} =>
                      /\ after.color = resp'.data.color
                      /\ after.image = "None" /\ after.image_url = ""]_vars

\* a PUT that carried an image_url and a color was stored
C13_Witness ==
    /\ resp.op = "BoardDetail.put"
    /\ resp.status = "200"
    /\ {"image_url", "color"} \subseteq resp.data.keys
    /\ NonEmptyAppearance(boards[resp.pk]) # {}

(***************************************************************************)
(* C18: a successful PUT /boards/{id} that carries none of image,          *)
(* image_url and color, a PUT of a title alone for one, leaves every field *)
(* of the stored board as it was.                                          *)
(***************************************************************************)
C18_PlainPutStoresNothing ==
    [][\A pk \in DOMAIN boards :
        (/\ resp'.op = "BoardDetail.put"
         /\ resp'.status = "200"
         /\ resp'.pk = pk
         /\ resp'.data.keys \cap AppearanceKeys = {}) =>
            boards'[pk] = boards[pk]]_vars

\* a PUT of another title alone was answered 200 on a board that has two
\* appearance fields from its creation
C18_Witness ==
    /\ resp.op = "BoardDetail.put"
    /\ resp.status = "200"
    /\ resp.data.keys = {"title"}
    /\ resp.data.title # boards[resp.pk].title
    /\ Cardinality(NonEmptyAppearance(boards[resp.pk])) = 2

\* the answer that C16 describes for the recency set z: the ids of z's four
\* highest-scored members that are boards, by descending score
IsTopRecent(seq, z) ==
    /\ Len(seq) <= 4
    /\ SeqToSet(seq) = SeqToSet(zrange_desc(z, 0, 3)) \cap DOMAIN boards
    /\ \A i, j \in 1..Len(seq) : i < j => (seq[i] # seq[j] /\ z[seq[i]] >= z[seq[j]])

(***************************************************************************)
(* C16: GET /boards?sort=recent of user u returns at most 4 boards, the    *)
(* boards that still exist among the 4 highest-scored ids of u's recency   *)
(* set, by descending score; the ids of deleted boards are left out and    *)
(* raise no error, and an empty recency set gives the empty sequence       *)
(* without error.                                                          *)
(***************************************************************************)
C16_TopFourRecent ==
    resp.op = "BoardList.get.recent" =>
        /\ resp.status = "200"
        /\ IsTopRecent(resp.seq, recent[resp.user])

\* the same with the store reachable
TopFourRecentWhenUp ==
    (resp.op = "BoardList.get.recent" /\ store = "up") =>
        /\ resp.status = "200"
        /\ IsTopRecent(resp.seq, recent[resp.user])

\* the listing left out the id of a board that was deleted after its view
C16_Witness ==
    /\ resp.op = "BoardList.get.recent"
    /\ resp.status = "200"
    /\ \E pk \in DOMAIN recent[resp.user] : pk \notin DOMAIN boards
    /\ resp.seq # <<>>

(***************************************************************************)
(* The toggles of two requests served side by side.  No transaction and no *)
(* lock spans the exists() query and the add() or remove() that follows    *)
(* it (lines 199-202, 449-452, 459-462), so each is a step of its own.     *)
(***************************************************************************)
\* POST /boards/star up to the exists() query of line 199
BoardStar_read(s, user, board) ==
    /\ inflight[s].pc = "idle"
    /\ UNCHANGED <<starred, memberships, boards, childVars, nextId, recent,
                   store, now>>
    /\ LET status == IF board = 0 THEN "400"
                     ELSE BoardStar_get_board(user, board)
       IN  IF status = "ok"
           THEN /\ inflight' = [inflight EXCEPT ![s] =
                        Request("star", user, board, board,
                                board \in starred[user], "read")]
                /\ UNCHANGED resp
           ELSE /\ inflight' = [inflight EXCEPT ![s] =
                        Request("star", user, board, board, FALSE, "failed")]
                /\ resp' = Response("BoardStar.post", user, board, 0, NoQ,
                                    status, {}, <<>>, FALSE)

\* the remove() or add() of lines 200-202 and the response
BoardStar_write(s) ==
    /\ inflight[s].pc = "read"
    /\ inflight[s].op = "star"
    /\ UNCHANGED <<memberships, boards, childVars, nextId, recent, store, now>>
    /\ LET q == inflight[s]
       IN  /\ starred' = [starred EXCEPT ![q.user] = toggle(@, q.pk, q.seen)]
           /\ inflight' = [inflight EXCEPT ![s].pc = "done"]
           /\ resp' = Response("BoardStar.post", q.user, q.pk, 0, NoQ, "204",
                               {}, <<>>, FALSE)

\* a body that toggles one label or one assignee
ToggleField(data) == IF "labels" \in data.keys THEN "labels" ELSE "assigned_to"
ToggleValue(data) == IF "labels" \in data.keys THEN data.labels
                     ELSE data.assigned_to

\* PUT /items/{pk} up to the exists() query of line 449 or 459
ItemDetail_read(s, user, pk, data) ==
    /\ inflight[s].pc = "idle"
    /\ UNCHANGED <<starred, memberships, boards, childVars, nextId, recent,
                   store, now>>
    /\ LET checked == IF pk \in DOMAIN items
                      THEN ItemDetail_put_checks(user, pk, data)
                      ELSE "404"
           status == IF checked # "ok" THEN checked
                     ELSE IF ~data.valid THEN "400"
                     ELSE "ok"
       IN  IF status = "ok"
           THEN /\ inflight' = [inflight EXCEPT ![s] =
                        Request(ToggleField(data), user, pk, ToggleValue(data),
                                IF "labels" \in data.keys
                                THEN data.labels \in items[pk].labels
                                ELSE data.assigned_to \in items[pk].assigned_to,
                                "read")]
                /\ UNCHANGED resp
           ELSE /\ inflight' = [inflight EXCEPT ![s] =
                        Request(ToggleField(data), user, pk, ToggleValue(data),
                                FALSE, "failed")]
                /\ resp' = [Response("ItemDetail.put", user, pk, 0, NoQ,
                                     status, {}, <<>>, FALSE)
                                EXCEPT !.data = data]

\* the remove() or add() of lines 450-452 or 460-462 and the response
ItemDetail_write(s) ==
    /\ inflight[s].pc = "read"
    /\ inflight[s].op \in {"labels", "assigned_to"}
    /\ UNCHANGED <<starred, memberships, boards, lists, comments, labels,
                   attachments, nextId, recent, store, now>>
    /\ LET q == inflight[s]
       IN  /\ items' = IF q.op = "labels"
                       THEN [items EXCEPT ![q.pk].labels = toggle(@, q.x, q.seen)]
                       ELSE [items EXCEPT
                               ![q.pk].assigned_to = toggle(@, q.x, q.seen)]
           /\ inflight' = [inflight EXCEPT ![s].pc = "done"]
           /\ resp' = Response("ItemDetail.put", q.user, q.pk, 0, NoQ, "200",
                               {}, <<>>, FALSE)

RaceData ==
    {ItemData({"labels"}, TRUE, 0, l, 0, "None", "", "") : l \in {1, 2}}
    \cup {ItemData({"assigned_to"}, TRUE, a, 0, 0, "None", "", "") : a \in Users}

RaceNext ==
    \/ \E s \in Slots, u \in Users, b \in BoardIds : BoardStar_read(s, u, b)
    \/ \E s \in Slots : BoardStar_write(s)
    \/ \E s \in Slots, u \in Users, pk \in DOMAIN items, data \in RaceData :
          ItemDetail_read(s, u, pk, data)
    \/ \E s \in Slots : ItemDetail_write(s)

RaceSpec == ItemInit /\ [][RaceNext]_vars

\* the pair that a request toggles, and whether the pair is there now
Target(q) == IF q.op = "star" THEN <<q.op, q.user, q.pk>> ELSE <<q.op, q.pk, q.x>>

Member(q) ==
    IF q.op = "star" THEN q.pk \in starred[q.user]
    ELSE IF q.op = "labels" THEN q.x \in items[q.pk].labels
    ELSE q.x \in items[q.pk].assigned_to

\* a toggle that the code is to perform: the requester can view the board,
\* and the label is one of the board, the assignee one who can view it
Entitled(q) ==
    IF q.op = "star"
    THEN q.pk \in DOMAIN boards /\ MayView(q.user, boards[q.pk])
    ELSE /\ q.op \in {"labels", "assigned_to"}
         /\ q.pk \in DOMAIN items
         /\ MayView(q.user, BoardOfItem(q.pk))
         /\ q.op = "labels" =>
                /\ q.x \in DOMAIN labels
                /\ labels[q.x].board = lists[items[q.pk].list].board
         /\ q.op = "assigned_to" =>
                /\ q.x \in Users
                /\ MayView(q.x, BoardOfItem(q.pk))

\* two requests for the same pair that both asked before either wrote, and
\* both wrote: one after the other they would have left the pair as it was
\* (seen), now it is the other way round
LostUpdate(kind) ==
    \E s, t \in Slots :
        /\ s # t
        /\ inflight[s].op = kind
        /\ Target(inflight[s]) = Target(inflight[t])
        /\ inflight[s].pc = "done" /\ inflight[t].pc = "done"
        /\ inflight[s].seen = inflight[t].seen
        /\ Member(inflight[s]) # inflight[s].seen

(***************************************************************************)
(* C17: the toggles of an assignee, of a label and of a star are           *)
(* check-then-act pairs without protection: two requests for the same      *)
(* pair that run side by side get to their membership query, and when      *)
(* both ask before either writes, the membership in the end is not the     *)
(* one that the two toggles give one after the other.                      *)
(***************************************************************************)
C17_LostUpdateReachable ==
    \A s, t \in Slots :
        (/\ s # t
         /\ Entitled(inflight[s]) /\ Entitled(inflight[t])
         /\ Target(inflight[s]) = Target(inflight[t])) =>
            /\ inflight[s].pc # "failed"
            /\ (/\ inflight[s].pc = "done" /\ inflight[t].pc = "done"
                /\ inflight[s].seen = inflight[t].seen) =>
                    Member(inflight[s]) # inflight[s].seen

\* two toggles of the same label of the same item lost an update
C17_Witness == LostUpdate("labels")

\* two stars of the same board by the same user lost an update
StarLostUpdate == LostUpdate("star")

\* no two toggles of an assignee get as far as their membership query
NoAssignmentRace ==
    \A s \in Slots : inflight[s].op = "assigned_to" => inflight[s].pc \in {"idle", "failed"}

====
